---- MODULE Spec2Model ----
(***************************************************************************)
(* A model of tk_tools/widgets.py: the BinaryLabel (an integer shown as a  *)
(* fixed-width binary string, with bit operations) and the "smart"         *)
(* widgets (SmartOptionMenu, SmartSpinBox, SmartCheckbutton) that forward  *)
(* writes of a tk variable to user callbacks.                              *)
(*                                                                         *)
(* Python integers are unbounded, so the bitwise operators are modelled on *)
(* unbounded integers (two's complement with an infinite sign extension).  *)
(* Strings are sequences of one-character strings.                         *)
(***************************************************************************)
EXTENDS Integers, Sequences, FiniteSets, TLC

\* ------------------------------------------------------------------ bounds
\* bit_width of a constructed label ranges over 1..MaxWidth
MaxWidth == 3
\* values given to the constructor and to set() range over -MaxNeg..MaxValue
MaxValue == 8
MaxNeg == 1
\* bit positions given to the bit operations range over -MaxNegPos..MaxPos
MaxPos == 3
MaxNegPos == 1
\* the logger's record count is capped
MaxWarnings == 2

Values == (0 - MaxNeg)..MaxValue
Positions == (0 - MaxNegPos)..MaxPos
Widths == 1..MaxWidth
Prefixes == {<< >>, <<"0", "b">>}

\* ------------------------------------------------- Python integer arithmetic
Pow2(n) == 2 ^ n

RECURSIVE AndNat(_, _)
\* a & b for a, b >= 0
AndNat(a, b) ==
    IF a = 0 \/ b = 0 THEN 0
    ELSE (a % 2) * (b % 2) + 2 * AndNat(a \div 2, b \div 2)

\* ~x
Invert(x) == (0 - x) - 1

\* x & y on Python integers of either sign
BitAnd(x, y) ==
    CASE x >= 0 /\ y >= 0 -> AndNat(x, y)
      [] x >= 0 /\ y < 0  -> x - AndNat(x, Invert(y))
      [] x < 0 /\ y >= 0  -> y - AndNat(y, Invert(x))
      [] OTHER            -> Invert(Invert(x) + Invert(y)
                                     - AndNat(Invert(x), Invert(y)))

\* x | y
BitOr(x, y) == Invert(BitAnd(Invert(x), Invert(y)))

\* x ^ y
BitXor(x, y) == BitOr(x, y) - BitAnd(x, y)

\* mutant: position 0 is taken for out of range as well
ShiftRaisesAtZero(position) == position <= 0

\* 1 << position raises ValueError("negative shift count") when position < 0
ShiftRaises(position) == position < 0

\* 1 << position, for position >= 0
Shl1(position) == Pow2(position)

\* ------------------------------------------------------- Python string ops
RECURSIVE Digits(_)
\* the binary digits of n >= 0, most significant first, no leading zeros
Digits(n) ==
    IF n < 2 THEN <<IF n = 0 THEN "0" ELSE "1">>
    ELSE Digits(n \div 2) \o <<IF n % 2 = 0 THEN "0" ELSE "1">>

\* bin(v): "0b..." or "-0b..."
Bin(v) ==
    IF v < 0 THEN <<"-", "0", "b">> \o Digits(0 - v)
    ELSE <<"0", "b">> \o Digits(v)

\* s[n:] for n >= 0
DropFirst(s, n) == SubSeq(s, n + 1, Len(s))

Zeros(n) == [i \in 1..n |-> "0"]

\* s.zfill(width): pads on the left, after a leading sign if there is one
Zfill(s, width) ==
    IF Len(s) >= width THEN s
    ELSE IF Len(s) > 0 /\ s[1] \in {"+", "-"}
         THEN <<s[1]>> \o Zeros(width - Len(s)) \o Tail(s)
         ELSE Zeros(width - Len(s)) \o s

\* s[-n:] for n >= 0 (s[-0:] is s[0:], the whole string)
TakeLast(s, n) ==
    IF n = 0 \/ n >= Len(s) THEN s
    ELSE SubSeq(s, Len(s) - n + 1, Len(s))

\* ------------------------------------------------------------ BinaryLabel
\* str(bin(value))[2:]
BinDigits(v) == DropFirst(Bin(v), 2)

\* mutant: warns already when the digits just fit
check_width_at_least(tw, v, bw) == tw /\ Len(BinDigits(v)) >= bw

\* _check_width: whether a warning is logged
check_width(tw, v, bw) == tw /\ Len(BinDigits(v)) > bw

\* mutant: the zero padding is left out
text_update_no_pad(pre, v, bw) == pre \o TakeLast(BinDigits(v), bw)

\* _text_update: the label's new text
text_update(pre, v, bw) == pre \o TakeLast(Zfill(BinDigits(v), bw), bw)

\* get_bit's result
GetBitVal(v, position) == BitAnd(v, Shl1(position))

\* mutant: toggles with | instead of ^
ToggleBitValOr(v, position) == BitOr(v, Shl1(position))

\* toggle_bit's new value
ToggleBitVal(v, position) == BitXor(v, Shl1(position))

\* mutant: sets with ^ instead of |
SetBitValXor(v, position) == BitXor(v, Shl1(position))

\* set_bit's new value
SetBitVal(v, position) == BitOr(v, Shl1(position))

\* mutant: clears by subtracting the bit
ClearBitValMinus(v, position) == v - Shl1(position)

\* clear_bit's new value
ClearBitVal(v, position) == BitAnd(v, Invert(Shl1(position)))

\* mutant: the most significant bit taken to be at bit_width
MsbPositionOffByOne(bw) == bw

\* the position the *_msb wrappers pass
MsbPosition(bw) == bw - 1

\* the position the *_lsb wrappers pass
LsbPosition == 0

\* what a method returns: None, or an integer
None == [none |-> TRUE, val |-> 0]
IntRet(n) == [none |-> FALSE, val |-> n]

VARIABLES
    pc,                  \* "new" before BinaryLabel.__init__, then "ready"
    value,               \* self._value
    prefix,              \* self._prefix
    bit_width,           \* self._bit_width
    truncation_warning,  \* self._truncation_warning
    text,                \* self["text"]
    warnings,            \* number of records logger.warning has emitted
    op,                  \* the last method called
    args,                \* its arguments
    ret,                 \* what it returned
    err,                 \* the exception it raised, or "none"
    before               \* value and text when the last method was called

labelVars == <<pc, value, prefix, bit_width, truncation_warning, text,
               warnings, op, args, ret, err, before>>

\* ---- the smart widgets' state
VARIABLES
    wpc,         \* "new" before the widget's __init__, then "ready" or "failed"
    kind,        \* the widget's class
    entry_type,  \* SmartSpinBox's entry_type argument
    var_type,    \* the class of self._var
    var,         \* what self._var holds
    native,      \* whether the native control's constructor has run
    traces,      \* the callbacks whose adapters self._var.trace('w', ...) holds
    werr,        \* the exception __init__ raised, or "none"
    wop,         \* the last method called
    calls,       \* per trace: the argument lists its callback's body ran with
                 \* during the last set
    runs,        \* per trace: how often its callback's body has run
    sets         \* per trace: the set calls made since it was registered

widgetVars == <<wpc, kind, entry_type, var_type, var, native, traces, werr,
                wop, calls, runs, sets>>

vars == <<labelVars, widgetVars>>

\* the record of a call: its name, arguments, result, and the state it found
Called(name, a, r, e) ==
    /\ op' = name
    /\ args' = a
    /\ ret' = r
    /\ err' = e
    /\ before' = [value |-> value, text |-> text]
    /\ UNCHANGED widgetVars

LabelInit ==
    /\ pc = "new"
    /\ value = 0
    /\ prefix = << >>
    /\ bit_width = 1
    /\ truncation_warning = TRUE
    /\ text = << >>
    /\ warnings = 0
    /\ op = "none"
    /\ args = << >>
    /\ ret = None
    /\ err = "none"
    /\ before = [value |-> 0, text |-> << >>]

\* BinaryLabel.__init__
BinaryLabel_init(v, pre, bw, tw) ==
    /\ pc = "new"
    /\ pc' = "ready"
    /\ value' = v
    /\ prefix' = pre
    /\ bit_width' = bw
    /\ truncation_warning' = tw
    /\ warnings' = warnings + (IF check_width(tw, v, bw) THEN 1 ELSE 0)
    /\ text' = text_update(pre, v, bw)
    /\ Called("__init__", <<v>>, None, "none")

\* BinaryLabel.get
get ==
    /\ pc = "ready"
    /\ Called("get", << >>, IntRet(value), "none")
    /\ UNCHANGED <<pc, value, prefix, bit_width, truncation_warning, text,
                   warnings>>

\* BinaryLabel.set
set(v) ==
    /\ pc = "ready"
    /\ warnings + (IF check_width(truncation_warning, v, bit_width)
                   THEN 1 ELSE 0) <= MaxWarnings
    /\ value' = v
    /\ warnings' = warnings + (IF check_width(truncation_warning, v, bit_width)
                               THEN 1 ELSE 0)
    /\ text' = text_update(prefix, v, bit_width)
    /\ Called("set", <<v>>, None, "none")
    /\ UNCHANGED <<pc, prefix, bit_width, truncation_warning>>

\* a method whose shift raised: the exception leaves the label as it was
Raised(name, a) ==
    /\ Called(name, a, None, "ValueError")
    /\ UNCHANGED <<pc, value, prefix, bit_width, truncation_warning, text,
                   warnings>>

\* the body of get_bit, called as `name`; `returns` is whether the caller
\* passes the result on
DoGetBit(name, a, position, returns) ==
    /\ pc = "ready"
    /\ IF ShiftRaises(position)
       THEN Raised(name, a)
       ELSE /\ Called(name, a,
                      IF returns THEN IntRet(GetBitVal(value, position))
                      ELSE None,
                      "none")
            /\ UNCHANGED <<pc, value, prefix, bit_width, truncation_warning,
                           text, warnings>>

\* the body of a method that stores a new value and redraws
DoUpdate(name, a, position, v) ==
    /\ pc = "ready"
    /\ IF ShiftRaises(position)
       THEN Raised(name, a)
       ELSE /\ value' = v
            /\ text' = text_update(prefix, v, bit_width)
            /\ Called(name, a, None, "none")
            /\ UNCHANGED <<pc, prefix, bit_width, truncation_warning,
                           warnings>>

\* BinaryLabel.get_bit
get_bit(position) == DoGetBit("get_bit", <<position>>, position, TRUE)

\* BinaryLabel.toggle_bit
toggle_bit(position) ==
    DoUpdate("toggle_bit", <<position>>, position,
             ToggleBitVal(value, position))

\* BinaryLabel.set_bit
set_bit(position) ==
    DoUpdate("set_bit", <<position>>, position, SetBitVal(value, position))

\* BinaryLabel.clear_bit
clear_bit(position) ==
    DoUpdate("clear_bit", <<position>>, position,
             ClearBitVal(value, position))

\* BinaryLabel.get_msb: calls get_bit and drops its result
get_msb == DoGetBit("get_msb", << >>, MsbPosition(bit_width), FALSE)

\* BinaryLabel.toggle_msb
toggle_msb ==
    DoUpdate("toggle_msb", << >>, MsbPosition(bit_width),
             ToggleBitVal(value, MsbPosition(bit_width)))

\* BinaryLabel.get_lsb: calls get_bit and drops its result
get_lsb == DoGetBit("get_lsb", << >>, LsbPosition, FALSE)

\* BinaryLabel.set_msb
set_msb ==
    DoUpdate("set_msb", << >>, MsbPosition(bit_width),
             SetBitVal(value, MsbPosition(bit_width)))

\* BinaryLabel.clear_msb
clear_msb ==
    DoUpdate("clear_msb", << >>, MsbPosition(bit_width),
             ClearBitVal(value, MsbPosition(bit_width)))

\* BinaryLabel.toggle_lsb
toggle_lsb ==
    DoUpdate("toggle_lsb", << >>, LsbPosition,
             ToggleBitVal(value, LsbPosition))

\* BinaryLabel.set_lsb
set_lsb ==
    DoUpdate("set_lsb", << >>, LsbPosition, SetBitVal(value, LsbPosition))

\* BinaryLabel.clear_lsb
clear_lsb ==
    DoUpdate("clear_lsb", << >>, LsbPosition, ClearBitVal(value, LsbPosition))

LabelNext ==
    \/ \E v \in Values, pre \in Prefixes, bw \in Widths, tw \in BOOLEAN :
          BinaryLabel_init(v, pre, bw, tw)
    \/ get
    \/ \E v \in Values : set(v)
    \/ \E p \in Positions : get_bit(p)
    \/ \E p \in Positions : toggle_bit(p)
    \/ \E p \in Positions : set_bit(p)
    \/ \E p \in Positions : clear_bit(p)
    \/ get_msb
    \/ toggle_msb
    \/ get_lsb
    \/ set_msb
    \/ clear_msb
    \/ toggle_lsb
    \/ set_lsb
    \/ clear_lsb

\* --------------------------------------------------------- smart widgets
\* the values set() is given: MaxVar + 1 values of each Python type
MaxVar == 1
\* at most MaxTraces callbacks are registered, and MaxSets set calls made
MaxTraces == 2
MaxSets == 2

\* a Python value: its type and which value of the type it is
PyVal(t, n) == [type |-> t, val |-> n]

\* a user callback: the parameters it declares (none, one, or one with a
\* default, so that it takes none or one), and whether its body raises
\* TypeError
Callbacks == [params : {"zero", "one", "either"}, raises : BOOLEAN]
NoCallback == [params |-> "absent", raises |-> FALSE]

EntryTypes == {"str", "int", "float", "bool"}

\* mutant: any other entry type falls through to a BooleanVar
SpinBoxVarTypeLax(e) ==
    CASE e = "str"   -> "StringVar"
      [] e = "int"   -> "IntVar"
      [] e = "float" -> "DoubleVar"
      [] OTHER       -> "BooleanVar"

\* the variable class SmartSpinBox.__init__ picks; "none" where it raises
SpinBoxVarType(e) ==
    CASE e = "str"   -> "StringVar"
      [] e = "int"   -> "IntVar"
      [] e = "float" -> "DoubleVar"
      [] OTHER       -> "none"

\* the Python type a variable class's get() returns
PyTypeOf(vt) ==
    CASE vt = "StringVar"  -> "str"
      [] vt = "IntVar"     -> "int"
      [] vt = "DoubleVar"  -> "float"
      [] OTHER             -> "bool"

\* self._var.get()
SmartWidget_get(vt, v) == PyVal(PyTypeOf(vt), v.val)

\* self.get() as the adapter resolves it.  SmartSpinBox inherits from
\* tk.Spinbox first, whose own get() returns the control's text: the string
\* form of the variable.  The other widgets reach SmartWidget.get.
self_get(k, vt, v) ==
    IF k = "SmartSpinBox" THEN PyVal("str", v.val) ELSE SmartWidget_get(vt, v)

\* whether callback(*a) binds its parameters, for a of length n
Accepts(cb, n) ==
    \/ cb.params = "either"
    \/ cb.params = "zero" /\ n = 0
    \/ cb.params = "one" /\ n = 1

\* callback(*a): whether the body ran, and whether TypeError came out
Invoke(cb, a) ==
    [ran |-> Accepts(cb, Len(a)),
     typeError |-> ~Accepts(cb, Len(a)) \/ cb.raises]

\* internal_callback: the argument lists the callback's body ran with
internal_callback(cb, current) ==
    LET first == Invoke(cb, << >>)
        second == Invoke(cb, <<current>>)
    IN  (IF first.ran THEN << << >> >> ELSE << >>)
        \o (IF first.typeError /\ second.ran THEN << <<current>> >>
            ELSE << >>)

\* self._var.trace('w', internal_callback)
Trace(ts, cb) == IF cb = NoCallback THEN ts ELSE Append(ts, cb)

WidgetInit ==
    /\ wpc = "new"
    /\ kind = "none"
    /\ entry_type = "none"
    /\ var_type = "none"
    /\ var = PyVal("none", 0)
    /\ native = FALSE
    /\ traces = << >>
    /\ werr = "none"
    /\ wop = "none"
    /\ calls = << >>
    /\ runs = << >>
    /\ sets = << >>

\* the bookkeeping of a newly constructed widget's traces
Registered(ts) ==
    /\ traces' = ts
    /\ calls' = [i \in 1..Len(ts) |-> << >>]
    /\ runs' = [i \in 1..Len(ts) |-> 0]
    /\ sets' = [i \in 1..Len(ts) |-> 0]

\* initial_value=None
NoValue == PyVal("NoneType", 0)

\* SmartOptionMenu.__init__ (options are the strings 0..MaxVar)
SmartOptionMenu_init(initial, cb) ==
    /\ wpc = "new"
    /\ wpc' = "ready"
    /\ kind' = "SmartOptionMenu"
    /\ var_type' = "StringVar"
    /\ var' = IF initial = NoValue THEN PyVal("str", 0) ELSE initial
    /\ native' = TRUE
    /\ Registered(Trace(<< >>, cb))
    /\ wop' = "__init__"
    /\ UNCHANGED <<entry_type, werr>>
    /\ UNCHANGED labelVars

\* SmartSpinBox.__init__
SmartSpinBox_init(e, cb) ==
    /\ wpc = "new"
    /\ kind' = "SmartSpinBox"
    /\ entry_type' = e
    /\ wop' = "__init__"
    /\ IF SpinBoxVarType(e) = "none"
       THEN /\ wpc' = "failed"
            /\ werr' = "ValueError"
            /\ UNCHANGED <<var_type, var, native, traces, calls, runs, sets>>
       ELSE /\ wpc' = "ready"
            /\ var_type' = SpinBoxVarType(e)
            /\ var' = PyVal(PyTypeOf(SpinBoxVarType(e)), 0)
            /\ native' = TRUE
            /\ Registered(Trace(<< >>, cb))
            /\ UNCHANGED werr
    /\ UNCHANGED labelVars

\* SmartCheckbutton.__init__
SmartCheckbutton_init(cb) ==
    /\ wpc = "new"
    /\ wpc' = "ready"
    /\ kind' = "SmartCheckbutton"
    /\ var_type' = "BooleanVar"
    /\ var' = PyVal("bool", 0)
    /\ native' = TRUE
    /\ Registered(Trace(<< >>, cb))
    /\ wop' = "__init__"
    /\ UNCHANGED <<entry_type, werr>>
    /\ UNCHANGED labelVars

\* SmartWidget.add_callback
add_callback(cb) ==
    /\ wpc = "ready"
    /\ Len(traces) < MaxTraces
    /\ traces' = Trace(traces, cb)
    /\ calls' = Append(calls, << >>)
    /\ runs' = Append(runs, 0)
    /\ sets' = Append(sets, 0)
    /\ wop' = "add_callback"
    /\ UNCHANGED <<wpc, kind, entry_type, var_type, var, native, werr>>
    /\ UNCHANGED labelVars

\* SmartWidget.set: the variable is written, and every write trace runs once
SmartWidget_set(n) ==
    /\ wpc = "ready"
    /\ \A i \in 1..Len(traces) : sets[i] < MaxSets
    /\ var' = PyVal(PyTypeOf(var_type), n)
    /\ calls' = [i \in 1..Len(traces) |->
                   internal_callback(traces[i],
                                    self_get(kind, var_type, var'))]
    /\ runs' = [i \in 1..Len(traces) |-> runs[i] + Len(calls'[i])]
    /\ sets' = [i \in 1..Len(traces) |-> sets[i] + 1]
    /\ wop' = "set"
    /\ UNCHANGED <<wpc, kind, entry_type, var_type, native, traces, werr>>
    /\ UNCHANGED labelVars

WidgetNext ==
    \/ \E initial \in {NoValue} \cup {PyVal("str", n) : n \in 0..MaxVar},
          cb \in Callbacks \cup {NoCallback} : SmartOptionMenu_init(initial, cb)
    \/ \E e \in EntryTypes, cb \in Callbacks \cup {NoCallback} :
          SmartSpinBox_init(e, cb)
    \/ \E cb \in Callbacks \cup {NoCallback} : SmartCheckbutton_init(cb)
    \/ \E cb \in Callbacks : add_callback(cb)
    \/ \E n \in 0..MaxVar : SmartWidget_set(n)

Init == LabelInit /\ WidgetInit

\* the BinaryLabel
Spec == Init /\ [][LabelNext]_vars

\* the smart widgets
SpecWidget == Init /\ [][WidgetNext]_vars

\* ------------------------------------------------------------------ claims
\* the w low bits of n >= 0, most significant first
Bits(n, w) ==
    [i \in 1..w |-> IF (n \div Pow2(w - i)) % 2 = 1 THEN "1" ELSE "0"]

RECURSIVE Decode(_)
\* the number a string of binary digits stands for
Decode(s) ==
    IF s = << >> THEN 0
    ELSE 2 * Decode(SubSeq(s, 1, Len(s) - 1))
         + (IF s[Len(s)] = "1" THEN 1 ELSE 0)

ValidPositions == 0..(bit_width - 1)
InRange(v) == 0 <= v /\ v < Pow2(bit_width)
BitOps == {"get_bit", "toggle_bit", "set_bit", "clear_bit"}

\* C1: whenever the label holds a non-negative value, its text is the prefix
\* followed by exactly bit_width characters, the bits of value mod
\* 2^bit_width, most significant first.
C1_TextIsLowBits ==
    (pc = "ready" /\ value >= 0) =>
        /\ Len(text) = Len(prefix) + bit_width
        /\ text = prefix \o Bits(value % Pow2(bit_width), bit_width)

\* C1 witness: a bit operation has left a value that needs more than
\* bit_width digits, shown after the prefix "0b"
C1_Witness ==
    /\ pc = "ready"
    /\ op = "toggle_bit"
    /\ err = "none"
    /\ prefix = <<"0", "b">>
    /\ value >= Pow2(bit_width)
    /\ value # before.value

\* C2: after a set call every registered callback's body has run exactly
\* once during that call (so as often as set was called since it was
\* registered), with no arguments if it declares none and with the newly set
\* value if it declares one.
C2_CallbackOncePerSet ==
    wop = "set" =>
        \A i \in 1..Len(traces) :
            /\ Len(calls[i]) = 1
            /\ runs[i] = sets[i]
            /\ traces[i].params = "zero" => calls[i] = << << >> >>
            /\ traces[i].params = "one" => calls[i] = << <<var>> >>

\* C3: a construction or set with a non-negative value adds one warning
\* exactly when warnings are enabled and the value needs more than bit_width
\* binary digits (value >= 2^bit_width); every other operation, the bit
\* operations included, adds none.
C3_OneWarningPerTruncatingSet ==
    [][/\ (op' \in {"__init__", "set"} /\ value' >= 0) =>
            warnings' - warnings =
                (IF truncation_warning' /\ value' >= Pow2(bit_width')
                 THEN 1 ELSE 0)
       /\ op' \notin {"__init__", "set"} => warnings' = warnings
      ]_vars

\* C3 witness: construction and a set have each warned, and a bit operation
\* has then pushed a value that fitted beyond bit_width without a warning
C3_Witness ==
    /\ op = "set_bit"
    /\ truncation_warning
    /\ warnings = 2
    /\ before.value >= 0
    /\ before.value < Pow2(bit_width)
    /\ value >= Pow2(bit_width)

\* C4: with a non-negative value and a valid position p, get_bit(p) right
\* after set_bit(p) returns a nonzero integer, get_bit(p) right after
\* clear_bit(p) returns zero, and get_bit changes neither value nor text.
C4_GetBitAfterSetClear ==
    [][(op' = "get_bit" /\ value >= 0 /\ args'[1] \in ValidPositions) =>
            /\ (op = "set_bit" /\ args = args') =>
                    (~ret'.none /\ ret'.val # 0)
            /\ (op = "clear_bit" /\ args = args') => ret' = IntRet(0)
            /\ value' = value
            /\ text' = text
      ]_vars

\* C4 witness: get_bit at a valid position above 0 has returned the masked
\* bit, a nonzero value other than 1
C4_Witness ==
    /\ op = "get_bit"
    /\ args[1] \in ValidPositions
    /\ value >= 0
    /\ ~ret.none
    /\ ret.val > 1

\* C5: toggle_bit(p) right after toggle_bit(p), p a valid position, leaves
\* the value and the text as they were before the first of the two calls.
C5_ToggleTwiceRestores ==
    [][(op = "toggle_bit" /\ op' = "toggle_bit" /\ args' = args
            /\ args[1] \in ValidPositions) =>
            /\ value' = before.value
            /\ text' = before.text
      ]_vars

\* C5 witness: toggle_bit at a valid position has changed value and text
C5_Witness ==
    /\ op = "toggle_bit"
    /\ args[1] \in ValidPositions
    /\ value # before.value
    /\ text # before.text

\* what a step is when it leaves the label as the bit operation at
\* `position` storing v does: it raises on a negative position, and
\* otherwise stores v and redraws
LeavesAs(position, v) ==
    IF ShiftRaises(position)
    THEN value' = value /\ text' = text /\ err' = "ValueError"
    ELSE /\ value' = v
         /\ text' = text_update(prefix, v, bit_width)
         /\ err' = "none"

\* C6: every step of set_msb, clear_msb, toggle_msb leaves the label as
\* set_bit, clear_bit, toggle_bit at bit_width - 1 would, and every step of
\* set_lsb, clear_lsb, toggle_lsb as those at position 0 would.
C6_WrappersAsBitOps ==
    [][/\ op' = "set_msb" =>
            LeavesAs(bit_width - 1, SetBitVal(value, bit_width - 1))
       /\ op' = "clear_msb" =>
            LeavesAs(bit_width - 1, ClearBitVal(value, bit_width - 1))
       /\ op' = "toggle_msb" =>
            LeavesAs(bit_width - 1, ToggleBitVal(value, bit_width - 1))
       /\ op' = "set_lsb" => LeavesAs(0, SetBitVal(value, 0))
       /\ op' = "clear_lsb" => LeavesAs(0, ClearBitVal(value, 0))
       /\ op' = "toggle_lsb" => LeavesAs(0, ToggleBitVal(value, 0))
      ]_vars

\* C6 witness: clear_msb has cleared the bit at bit_width - 1
C6_Witness ==
    /\ op = "clear_msb"
    /\ bit_width > 1
    /\ before.value >= 0
    /\ value = before.value - Pow2(bit_width - 1)

\* C7: get_msb returns value AND (1 << (bit_width - 1)), as get_bit at
\* bit_width - 1 does, and get_lsb returns value AND 1.
C7_GetMsbReturnsBit ==
    /\ op = "get_msb" => ret = IntRet(BitAnd(value, Pow2(bit_width - 1)))
    /\ op = "get_lsb" => ret = IntRet(BitAnd(value, 1))

\* C8 as stated: no bit operation ever raises, whatever the position.
C8_NoBitOpRaises == op \in BitOps => err = "none"

\* C8 amended: a bit operation raises exactly when its position is negative
\* (ValueError, the label left as it was); at every position >= 0, also
\* those >= bit_width, it completes.
C8_RaisesOnlyOnNegative ==
    op \in BitOps =>
        /\ err = "none" <=> args[1] >= 0
        /\ err # "none" =>
              /\ err = "ValueError"
              /\ ret = None
              /\ value = before.value
              /\ text = before.text

\* C8 witness: set_bit at a position >= bit_width has completed and set it
C8_Witness ==
    /\ op = "set_bit"
    /\ args[1] >= bit_width
    /\ err = "none"
    /\ value # before.value

\* C9: a SmartSpinBox constructed with an entry_type other than "str", "int",
\* "float" has raised ValueError with no native control created and no trace
\* registered; with one of the three it is constructed without an error.
C9_SpinBoxEntryType ==
    kind = "SmartSpinBox" =>
        IF entry_type \in {"str", "int", "float"}
        THEN wpc = "ready" /\ werr = "none" /\ native
        ELSE /\ wpc = "failed"
             /\ werr = "ValueError"
             /\ ~native
             /\ traces = << >>

\* C9 witness: construction with entry_type "bool" has failed
C9_Witness ==
    /\ kind = "SmartSpinBox"
    /\ entry_type = "bool"
    /\ wpc = "failed"

\* C10: a toggle_bit, set_bit or clear_bit at a valid position, called with
\* 0 <= value < 2^bit_width, leaves 0 <= value < 2^bit_width, and the digits
\* shown after the prefix are the whole of the value.
C10_BitOpsStayInRange ==
    [][(pc = "ready" /\ InRange(value)
            /\ op' \in {"toggle_bit", "set_bit", "clear_bit"}
            /\ args'[1] \in ValidPositions) =>
            /\ InRange(value')
            /\ Decode(DropFirst(text', Len(prefix))) = value'
      ]_vars

\* C10 witness: clear_bit at a valid position has cleared a set bit of a
\* value in range
C10_Witness ==
    /\ op = "clear_bit"
    /\ args[1] \in ValidPositions
    /\ InRange(before.value)
    /\ value < before.value
    /\ InRange(value)

====
